---- MODULE Spec2Model ----
(***************************************************************************)
(* Model of the iothub service client (src/iotservice/client.go).          *)
(*                                                                         *)
(* Spec          the client object shared by two caller goroutines:        *)
(*               Connect, Close, SendEvent, SubscribeFeedback, the token   *)
(*               renewal goroutines and the feedback callbacks.            *)
(* LifecycleSpec Connect, Close and the renewal goroutines only, with the   *)
(*               goroutines scheduled fairly (for the liveness of          *)
(*               renewal shutdown).                                        *)
(* ResolveSpec   one SubscribeEvents call: connectToEventHub (the probe,   *)
(*               the redirect, the second dial), the partition receive     *)
(*               loop and the event callbacks.                             *)
(* ParseSpec     the redirect metadata handling of connectToEventHub on    *)
(*               its own: the address and hostname of a link-redirect      *)
(*               error are drawn at the start, then the group is cut out   *)
(*               and the second dial address is built.                     *)
(* CodecSpec     the message conversions of src/commonamqp/message.go and  *)
(*               the WithSendAck option: either an application message     *)
(*               is drawn, optionally given an ack type, encoded and       *)
(*               decoded again, or a received wire message is drawn and    *)
(*               decoded.                                                  *)
(***************************************************************************)
EXTENDS Integers, Sequences, FiniteSets, TLC

\* ------------------------------------------------------------------ bounds
MaxDials == 2      \* transports eventhub.Dial can hand out
MaxCalls == 3      \* API calls started on the client
MaxBatches == 1    \* feedback messages the hub delivers
MaxBatchLen == 2   \* records in one feedback message
MaxEvents == 4     \* device events the partition loop delivers
MaxHostLen == 2    \* characters of a generated redirect host
MaxGroupLen == 2   \* characters of a generated consumer group
MaxProps == 2      \* entries of a generated properties map
MaxAnnotations == 2 \* entries of a generated annotations map

Procs == {"g1", "g2"}          \* caller goroutines
NoProc == "none"
Transports == 1 .. MaxDials
NilConn == 0

VARIABLES
    mu,        \* c.mu: the goroutine holding it, or NoProc
    conn,      \* c.conn: a transport id, or NilConn
    done,      \* c.done is closed
    doneCloses,\* how many times close(c.done) ran (a second one panics)
    tr,        \* the transports dialed by Connect
    nextT,     \* transports dialed so far
    renew,     \* the renewal goroutine of each transport
    pc,        \* each caller's position
    loc,       \* each caller's locals and, once idle, its last result
    calls,     \* API calls started
    closeSeq,  \* Close calls that passed c.mu.Lock()
    fb         \* feedback messages received so far

clientVars == <<mu, conn, done, doneCloses, tr, nextT, renew, pc, loc, calls,
                closeSeq, fb>>

VARIABLES
    rpc,       \* position of the SubscribeEvents caller
    rconn,     \* connectToEventHub's local conn: "nil", "probe" or "second"
    rerr,      \* connectToEventHub's local err
    probe,     \* the probe transport, session and receive link
    second,    \* the transport dialed to the redirect target
    dials,     \* amqp.Dial calls made by connectToEventHub
    probeOut,  \* what the probe Receive returned
    rret,      \* what connectToEventHub returned
    evsess,    \* the session SubscribeEvents opens on the returned transport
    events,    \* per delivered event: callbacks started, callback state
    evcur,     \* the event the partition loop is handing to the handler
    eret       \* what SubscribeEvents returned

resolveVars == <<rpc, rconn, rerr, probe, second, dials, probeOut, rret,
                 evsess, events, evcur, eret>>

VARIABLES
    ppc,       \* position in the redirect metadata handling
    pin,       \* the redirect error's Info: address, hostname (and its parts)
    pgroup,    \* the local group
    pdial      \* the address handed to the second amqp.Dial

VARIABLES
    cpc,       \* position of the conversion run
    cin,       \* what the run started from
    cmsg,      \* the *common.Message being sent
    ctyp,      \* the ack type given to WithSendAck
    cerr,      \* what the send option returned
    cwire,     \* the *amqp.Message
    cout       \* what FromAMQPMessage produced

parseVars == <<ppc, pin, pgroup, pdial>>

codecVars == <<cpc, cin, cmsg, ctyp, cerr, cwire, cout>>

pureVars == <<parseVars, codecVars>>

vars == <<clientVars, resolveVars, pureVars>>

NoLoc == [op |-> "none", err |-> "nil", eh |-> NilConn, pre |-> NilConn,
          idx |-> 0, net |-> 0, consulted |-> FALSE, valid |-> TRUE,
          lnk |-> NilConn, msg |-> 0, next |-> 0]

NoTransport == [state |-> "none", closes |-> 0, senders |-> 0, receivers |-> 0]

NoProbe == [conn |-> "none", sess |-> "none", recv |-> "none"]

ResolveInit ==
    /\ rpc = "start"
    /\ rconn = "nil"
    /\ rerr = "nil"
    /\ probe = NoProbe
    /\ second = "none"
    /\ dials = 0
    /\ probeOut = "none"
    /\ rret = "none"
    /\ evsess = "none"
    /\ events = << >>
    /\ evcur = 0
    /\ eret = "none"

\* no redirect error is at hand
ParseIdle ==
    /\ ppc = "idle"
    /\ pin = "none"
    /\ pgroup = "none"
    /\ pdial = "none"

ClientInit ==
    /\ mu = NoProc
    /\ conn = NilConn
    /\ done = FALSE
    /\ doneCloses = 0
    /\ tr = [t \in Transports |-> NoTransport]
    /\ nextT = 0
    /\ renew = [t \in Transports |-> "none"]
    /\ pc = [p \in Procs |-> "idle"]
    /\ loc = [p \in Procs |-> NoLoc]
    /\ calls = 0
    /\ closeSeq = 0
    /\ fb = << >>

CodecIdle ==
    /\ cpc = "idle"
    /\ cin = "none"
    /\ cmsg = "none"
    /\ ctyp = ""
    /\ cerr = "none"
    /\ cwire = "none"
    /\ cout = "none"

Init ==
    /\ ClientInit
    /\ ResolveInit
    /\ ParseIdle
    /\ CodecIdle

\* eventhub.Client.Close / amqp link bookkeeping on one transport
CloseTransport(T, t) ==
    [T EXCEPT ![t].state = "closed", ![t].closes = @ + 1]

\* an idle caller starts its next API call
Begin(p) ==
    /\ pc[p] = "idle"
    /\ calls < MaxCalls
    /\ calls' = calls + 1

\* ----------------------------------------------------------------- Connect
\* a caller enters Connect: c.mu.Lock()
ConnectLock(p) ==
    /\ Begin(p)
    /\ mu = NoProc
    /\ mu' = p
    /\ loc' = [loc EXCEPT ![p] = [NoLoc EXCEPT !.op = "Connect", !.pre = conn]]
    /\ pc' = [pc EXCEPT ![p] = "connect_dial"]
    /\ UNCHANGED <<conn, done, doneCloses, tr, nextT, renew, closeSeq, fb>>
    /\ UNCHANGED resolveVars
    /\ UNCHANGED pureVars

\* eventhub.Dial: a fresh transport, or an error returned with the mutex
\* released by the deferred Unlock
ConnectDial(p) ==
    /\ pc[p] = "connect_dial"
    /\ \/ /\ nextT < MaxDials
          /\ nextT' = nextT + 1
          /\ tr' = [tr EXCEPT ![nextT + 1].state = "open"]
          /\ loc' = [loc EXCEPT ![p].eh = nextT + 1, ![p].net = @ + 1]
          /\ pc' = [pc EXCEPT ![p] = "connect_auth"]
          /\ UNCHANGED mu
       \/ /\ loc' = [loc EXCEPT ![p].err = "dial failed", ![p].net = @ + 1]
          /\ pc' = [pc EXCEPT ![p] = "idle"]
          /\ mu' = NoProc
          /\ UNCHANGED <<nextT, tr>>
    /\ UNCHANGED <<conn, done, doneCloses, renew, calls, closeSeq, fb>>
    /\ UNCHANGED resolveVars
    /\ UNCHANGED pureVars

AuthOutcomes == {"nil", "sas failed", "put token rejected"}

\* c.conn = eh happens only past both error returns
ConnectAssign(e, t) == IF e = "nil" THEN t ELSE conn

\* PutTokenContinuously starts its goroutine only when the first put succeeded
ConnectStartRenew(e, t) ==
    IF e = "nil" THEN [renew EXCEPT ![t] = "waiting"] ELSE renew

\* creds.SAS, then PutTokenContinuously, then the assignment of c.conn
ConnectAuth(p) ==
    /\ pc[p] = "connect_auth"
    /\ \E e \in AuthOutcomes :
          /\ loc' = [loc EXCEPT ![p].err = e,
                                ![p].net = @ + (IF e = "sas failed" THEN 0 ELSE 1)]
          /\ conn' = ConnectAssign(e, loc[p].eh)
          /\ renew' = ConnectStartRenew(e, loc[p].eh)
    /\ pc' = [pc EXCEPT ![p] = "connect_defer"]
    /\ UNCHANGED <<mu, done, doneCloses, tr, nextT, calls, closeSeq, fb>>
    /\ UNCHANGED resolveVars
    /\ UNCHANGED pureVars

\* a deferred func that tests a shadowed, always nil err
ConnectCleanupNever(e, t) == tr

\* the deferred func: eh.Close() when err != nil
ConnectCleanup(e, t) == IF e # "nil" THEN CloseTransport(tr, t) ELSE tr

\* the deferred calls run, last of them c.mu.Unlock(), and Connect returns
ConnectReturn(p) ==
    /\ pc[p] = "connect_defer"
    /\ tr' = ConnectCleanup(loc[p].err, loc[p].eh)
    /\ mu' = NoProc
    /\ pc' = [pc EXCEPT ![p] = "idle"]
    /\ UNCHANGED <<conn, done, doneCloses, nextT, renew, loc, calls, closeSeq, fb>>
    /\ UNCHANGED resolveVars
    /\ UNCHANGED pureVars

\* ------------------------------------------------------------------- Close
\* Close without the select: every call closes c.done again
DoneNeverObserved == FALSE

\* case <-c.done of the select in Close
DoneObserved == done

\* Close that leaves c.done open
CloseDoneSkipped == done

\* default: close(c.done)
CloseDone == TRUE

\* a caller enters Close: c.mu.Lock(), the select on c.done and the
\* c.conn == nil test
CloseSelect(p) ==
    /\ Begin(p)
    /\ mu = NoProc
    /\ closeSeq' = closeSeq + 1
    /\ loc' = [loc EXCEPT ![p] = [NoLoc EXCEPT !.op = "Close", !.pre = conn,
                                               !.idx = closeSeq + 1]]
    /\ IF DoneObserved
       THEN /\ pc' = [pc EXCEPT ![p] = "idle"]
            /\ UNCHANGED <<mu, done, doneCloses>>
       ELSE /\ done' = CloseDone
            /\ doneCloses' = doneCloses + 1
            /\ IF conn = NilConn
               THEN /\ pc' = [pc EXCEPT ![p] = "idle"]
                    /\ UNCHANGED mu
               ELSE /\ pc' = [pc EXCEPT ![p] = "close_conn"]
                    /\ mu' = p
    /\ UNCHANGED <<conn, tr, nextT, renew, fb>>
    /\ UNCHANGED resolveVars
    /\ UNCHANGED pureVars

\* return c.conn.Close(), then the deferred c.mu.Unlock()
CloseConn(p) ==
    /\ pc[p] = "close_conn"
    /\ tr' = CloseTransport(tr, conn)
    /\ \E e \in {"nil", "close failed"} :
          loc' = [loc EXCEPT ![p].err = e, ![p].net = @ + 1]
    /\ mu' = NoProc
    /\ pc' = [pc EXCEPT ![p] = "idle"]
    /\ UNCHANGED <<conn, done, doneCloses, nextT, renew, calls, closeSeq, fb>>
    /\ UNCHANGED resolveVars
    /\ UNCHANGED pureVars

\* ----------------------------------------------------------- token renewal
\* the goroutine of PutTokenContinuously at its select: done wins, else the
\* timer fires and a token is submitted
RenewWait(t) ==
    /\ renew[t] = "waiting"
    /\ renew' = [renew EXCEPT ![t] = IF done THEN "stopped" ELSE "submitting"]
    /\ UNCHANGED <<mu, conn, done, doneCloses, tr, nextT, pc, loc, calls, closeSeq, fb>>
    /\ UNCHANGED resolveVars
    /\ UNCHANGED pureVars

\* the submission ends: accepted, or failed (always so on a closed
\* transport), and a failed one ends the goroutine
RenewSubmit(t) ==
    /\ renew[t] = "submitting"
    /\ \/ /\ tr[t].state = "open"
          /\ renew' = [renew EXCEPT ![t] = "waiting"]
       \/ renew' = [renew EXCEPT ![t] = "failed"]
    /\ UNCHANGED <<mu, conn, done, doneCloses, tr, nextT, pc, loc, calls, closeSeq, fb>>
    /\ UNCHANGED resolveVars
    /\ UNCHANGED pureVars

\* --------------------------------------------------------------- SendEvent
\* a liveness check that always answers yes
IsConnectedAlways == TRUE

IsConnected == conn # NilConn

\* the two argument tests at the top of SendEvent
SendValidate(devEmpty, payNil) ==
    IF devEmpty THEN "device id is empty"
    ELSE IF payNil THEN "payload is nil"
    ELSE "nil"

\* SendEvent asking isConnected before it looks at its arguments
SendOutcomeConnFirst(devEmpty, payNil, optErr) ==
    LET v == SendValidate(devEmpty, payNil) IN
    IF ~IsConnected THEN [err |-> "not connected", consulted |-> TRUE]
    ELSE IF v # "nil" THEN [err |-> v, consulted |-> TRUE]
    ELSE IF optErr THEN [err |-> "option error", consulted |-> TRUE]
    ELSE [err |-> "nil", consulted |-> TRUE]

\* SendEvent up to the link: the argument tests, isConnected, the options
SendOutcome(devEmpty, payNil, optErr) ==
    LET v == SendValidate(devEmpty, payNil) IN
    IF v # "nil" THEN [err |-> v, consulted |-> FALSE]
    ELSE IF ~IsConnected THEN [err |-> "not connected", consulted |-> TRUE]
    ELSE IF optErr THEN [err |-> "option error", consulted |-> TRUE]
    ELSE [err |-> "nil", consulted |-> TRUE]

\* a caller enters SendEvent with its arguments; isConnected takes c.mu
SendCall(p) ==
    /\ Begin(p)
    /\ \E devEmpty \in BOOLEAN, payNil \in BOOLEAN, optErr \in BOOLEAN :
          LET o == SendOutcome(devEmpty, payNil, optErr) IN
          /\ o.consulted => mu = NoProc
          /\ loc' = [loc EXCEPT ![p] = [NoLoc EXCEPT !.op = "SendEvent",
                                                     !.valid = ~devEmpty /\ ~payNil,
                                                     !.err = o.err,
                                                     !.consulted = o.consulted,
                                                     !.pre = conn]]
          /\ pc' = [pc EXCEPT ![p] = IF o.err = "nil" THEN "send_link" ELSE "idle"]
    /\ UNCHANGED <<mu, conn, done, doneCloses, tr, nextT, renew, closeSeq, fb>>
    /\ UNCHANGED resolveVars
    /\ UNCHANGED pureVars

\* c.conn.Sess() on a nil c.conn is a nil dereference; else the link error
LinkFailure == IF conn = NilConn THEN "panic: nil conn" ELSE "link error"

\* c.conn.Sess().NewSender(...): c.conn is read here without the mutex
SendLink(p) ==
    /\ pc[p] = "send_link"
    /\ \/ /\ conn # NilConn
          /\ tr[conn].state = "open"
          /\ tr' = [tr EXCEPT ![conn].senders = @ + 1]
          /\ loc' = [loc EXCEPT ![p].lnk = conn, ![p].net = @ + 1]
          /\ pc' = [pc EXCEPT ![p] = "send_send"]
       \/ /\ loc' = [loc EXCEPT ![p].err = LinkFailure, ![p].net = @ + 1]
          /\ pc' = [pc EXCEPT ![p] = "idle"]
          /\ UNCHANGED tr
    /\ UNCHANGED <<mu, conn, done, doneCloses, nextT, renew, calls, closeSeq, fb>>
    /\ UNCHANGED resolveVars
    /\ UNCHANGED pureVars

\* send.Send(ctx, msg), then the deferred send.Close()
SendSend(p) ==
    /\ pc[p] = "send_send"
    /\ \/ /\ tr[loc[p].lnk].state = "open"
          /\ loc' = [loc EXCEPT ![p].net = @ + 1]
       \/ loc' = [loc EXCEPT ![p].err = "send error", ![p].net = @ + 1]
    /\ pc' = [pc EXCEPT ![p] = "idle"]
    /\ UNCHANGED <<mu, conn, done, doneCloses, tr, nextT, renew, calls, closeSeq, fb>>
    /\ UNCHANGED resolveVars
    /\ UNCHANGED pureVars

\* ------------------------------------------------------- SubscribeFeedback
\* a caller enters SubscribeFeedback: if !c.isConnected() { return errNotConnected }
FbCheck(p) ==
    /\ Begin(p)
    /\ mu = NoProc
    /\ LET e == IF ~IsConnected THEN "not connected" ELSE "nil" IN
       /\ loc' = [loc EXCEPT ![p] = [NoLoc EXCEPT !.op = "SubscribeFeedback",
                                                  !.consulted = TRUE,
                                                  !.pre = conn, !.err = e]]
       /\ pc' = [pc EXCEPT ![p] = IF e = "nil" THEN "fb_link" ELSE "idle"]
    /\ UNCHANGED <<mu, conn, done, doneCloses, tr, nextT, renew, closeSeq, fb>>
    /\ UNCHANGED resolveVars
    /\ UNCHANGED pureVars

\* c.conn.Sess().NewReceiver(...)
FbLink(p) ==
    /\ pc[p] = "fb_link"
    /\ \/ /\ conn # NilConn
          /\ tr[conn].state = "open"
          /\ tr' = [tr EXCEPT ![conn].receivers = @ + 1]
          /\ loc' = [loc EXCEPT ![p].lnk = conn, ![p].net = @ + 1]
          /\ pc' = [pc EXCEPT ![p] = "fb_recv"]
       \/ /\ loc' = [loc EXCEPT ![p].err = LinkFailure, ![p].net = @ + 1]
          /\ pc' = [pc EXCEPT ![p] = "idle"]
          /\ UNCHANGED tr
    /\ UNCHANGED <<mu, conn, done, doneCloses, nextT, renew, calls, closeSeq, fb>>
    /\ UNCHANGED resolveVars
    /\ UNCHANGED pureVars

\* a feedback message whose body is an array of n records (n = -1: not JSON)
NewBatch(n) ==
    [len |-> n, acked |-> FALSE,
     started |-> [i \in 1 .. n |-> 0], returned |-> 0]

\* recv.Receive(ctx): the next message, or an error that ends the loop
FbReceive(p) ==
    /\ pc[p] = "fb_recv"
    /\ \/ /\ tr[loc[p].lnk].state = "open"
          /\ Len(fb) < MaxBatches
          /\ \E n \in -1 .. MaxBatchLen : fb' = Append(fb, NewBatch(n))
          /\ loc' = [loc EXCEPT ![p].msg = Len(fb) + 1, ![p].net = @ + 1]
          /\ pc' = [pc EXCEPT ![p] = "fb_accept"]
       \/ /\ loc' = [loc EXCEPT ![p].err = "receive error", ![p].net = @ + 1]
          /\ pc' = [pc EXCEPT ![p] = "idle"]
          /\ UNCHANGED fb
    /\ UNCHANGED <<mu, conn, done, doneCloses, tr, nextT, renew, calls, closeSeq>>
    /\ UNCHANGED resolveVars
    /\ UNCHANGED pureVars

\* the loop body without msg.Accept()
FbAcceptUnacked(p) ==
    /\ pc[p] = "fb_accept"
    /\ IF fb[loc[p].msg].len < 0
       THEN /\ loc' = [loc EXCEPT ![p].err = "json error"]
            /\ pc' = [pc EXCEPT ![p] = "idle"]
       ELSE /\ loc' = [loc EXCEPT ![p].next = 1]
            /\ pc' = [pc EXCEPT ![p] = "fb_dispatch"]
    /\ UNCHANGED <<mu, conn, done, doneCloses, tr, nextT, renew, calls, closeSeq, fb>>
    /\ UNCHANGED resolveVars
    /\ UNCHANGED pureVars

\* msg.Accept(), then json.Unmarshal of the body
FbAccept(p) ==
    /\ pc[p] = "fb_accept"
    /\ fb' = [fb EXCEPT ![loc[p].msg].acked = TRUE]
    /\ IF fb[loc[p].msg].len < 0
       THEN /\ loc' = [loc EXCEPT ![p].err = "json error"]
            /\ pc' = [pc EXCEPT ![p] = "idle"]
       ELSE /\ loc' = [loc EXCEPT ![p].next = 1]
            /\ pc' = [pc EXCEPT ![p] = "fb_dispatch"]
    /\ UNCHANGED <<mu, conn, done, doneCloses, tr, nextT, renew, calls, closeSeq>>
    /\ UNCHANGED resolveVars
    /\ UNCHANGED pureVars

\* a loop body that returns nil after its first batch
FbDispatchOnce(p) ==
    /\ pc[p] = "fb_dispatch"
    /\ LET m == loc[p].msg
           i == loc[p].next IN
       IF i > fb[m].len
       THEN /\ pc' = [pc EXCEPT ![p] = "idle"]
            /\ UNCHANGED <<fb, loc>>
       ELSE /\ fb' = [fb EXCEPT ![m].started[i] = @ + 1]
            /\ loc' = [loc EXCEPT ![p].next = i + 1]
            /\ UNCHANGED pc
    /\ UNCHANGED <<mu, conn, done, doneCloses, tr, nextT, renew, calls, closeSeq>>
    /\ UNCHANGED resolveVars
    /\ UNCHANGED pureVars

\* for _, f := range v { go fn(f) }: one iteration, or the end of the range
FbDispatch(p) ==
    /\ pc[p] = "fb_dispatch"
    /\ LET m == loc[p].msg
           i == loc[p].next IN
       IF i > fb[m].len
       THEN /\ pc' = [pc EXCEPT ![p] = "fb_recv"]
            /\ loc' = [loc EXCEPT ![p].msg = 0, ![p].next = 0]
            /\ UNCHANGED fb
       ELSE /\ fb' = [fb EXCEPT ![m].started[i] = @ + 1]
            /\ loc' = [loc EXCEPT ![p].next = i + 1]
            /\ UNCHANGED pc
    /\ UNCHANGED <<mu, conn, done, doneCloses, tr, nextT, renew, calls, closeSeq>>
    /\ UNCHANGED resolveVars
    /\ UNCHANGED pureVars

\* Started(b): callbacks of batch b started so far
RECURSIVE SumTo(_, _)
SumTo(f, n) == IF n = 0 THEN 0 ELSE f[n] + SumTo(f, n - 1)

Started(b) == IF b.len < 0 THEN 0 ELSE SumTo(b.started, b.len)

\* a started callback returns (it need not)
FbCallbackReturn(m) ==
    /\ m \in 1 .. Len(fb)
    /\ fb[m].returned < Started(fb[m])
    /\ fb' = [fb EXCEPT ![m].returned = @ + 1]
    /\ UNCHANGED <<mu, conn, done, doneCloses, tr, nextT, renew, pc, loc, calls, closeSeq>>
    /\ UNCHANGED resolveVars
    /\ UNCHANGED pureVars

\* -------------------------------------------------------- connectToEventHub
\* creds.SAS for the probe's password
ResolveSAS ==
    /\ rpc = "start"
    /\ \/ /\ rpc' = "r_dial"
          /\ UNCHANGED <<rerr, rret>>
       \/ /\ rerr' = "sas failed"
          /\ rret' = "sas failed"
          /\ rpc' = "e_resolved"
    /\ UNCHANGED <<rconn, probe, second, dials, probeOut, evsess, events, evcur, eret>>
    /\ UNCHANGED clientVars
    /\ UNCHANGED pureVars

\* conn, err := amqp.Dial(addr, ...): the probe transport
ResolveDial ==
    /\ rpc = "r_dial"
    /\ dials' = dials + 1
    /\ \/ /\ probe' = [probe EXCEPT !.conn = "open"]
          /\ rconn' = "probe"
          /\ rpc' = "r_session"
          /\ UNCHANGED <<rerr, rret>>
       \/ /\ rerr' = "dial failed"
          /\ rret' = "dial failed"
          /\ rpc' = "e_resolved"
          /\ UNCHANGED <<probe, rconn>>
    /\ UNCHANGED <<second, probeOut, evsess, events, evcur, eret>>
    /\ UNCHANGED clientVars
    /\ UNCHANGED pureVars

\* sess, err := conn.NewSession()
ResolveSession ==
    /\ rpc = "r_session"
    /\ \/ /\ probe' = [probe EXCEPT !.sess = "open"]
          /\ rpc' = "r_receiver"
          /\ UNCHANGED <<rerr, rret>>
       \/ /\ rerr' = "session failed"
          /\ rret' = "session failed"
          /\ rpc' = "r_defer"
          /\ UNCHANGED probe
    /\ UNCHANGED <<rconn, second, dials, probeOut, evsess, events, evcur, eret>>
    /\ UNCHANGED clientVars
    /\ UNCHANGED pureVars

\* recv, err := sess.NewReceiver(amqp.LinkSourceAddress("messages/events/"))
ResolveReceiver ==
    /\ rpc = "r_receiver"
    /\ \/ /\ probe' = [probe EXCEPT !.recv = "open"]
          /\ rpc' = "r_receive"
          /\ UNCHANGED <<rerr, rret>>
       \/ /\ rerr' = "link failed"
          /\ rret' = "link failed"
          /\ rpc' = "r_defer"
          /\ UNCHANGED probe
    /\ UNCHANGED <<rconn, second, dials, probeOut, evsess, events, evcur, eret>>
    /\ UNCHANGED clientVars
    /\ UNCHANGED pureVars

\* what recv.Receive(ctx) can return: a message (err == nil), a DetachError
\* whose condition is amqp.ErrorLinkRedirect, a DetachError with another
\* condition, or an error of another type
ProbeOutcomes == {"nil", "detach: link redirect", "detach: unauthorized",
                  "context canceled"}

\* the type assertion alone, without the test of the condition
IsDetachError(e) == e \in {"detach: link redirect", "detach: unauthorized"}

\* rerr, ok := err.(amqp.DetachError); ok && Condition == ErrorLinkRedirect
IsRedirect(e) == e = "detach: link redirect"

\* _, err = recv.Receive(ctx) and the two tests that follow it
ResolveReceive ==
    /\ rpc = "r_receive"
    /\ \E e \in ProbeOutcomes :
          /\ probeOut' = e
          /\ rerr' = e
          /\ IF e = "nil"
             THEN /\ rret' = "expected redirect error"
                  /\ rpc' = "r_defer"
             ELSE IF ~IsRedirect(e)
             THEN /\ rret' = e
                  /\ rpc' = "r_defer"
             ELSE /\ rpc' = "r_dial2"
                  /\ UNCHANGED rret
    /\ UNCHANGED <<rconn, probe, second, dials, evsess, events, evcur, eret>>
    /\ UNCHANGED clientVars
    /\ UNCHANGED pureVars

\* conn, err = amqp.Dial("amqps://" + hostname, ...): both locals are
\* overwritten; a failed Dial hands back nil or a client that never started
ResolveDial2 ==
    /\ rpc = "r_dial2"
    /\ dials' = dials + 1
    /\ \/ /\ second' = "open"
          /\ rconn' = "second"
          /\ rerr' = "nil"
          /\ rret' = "nil"
       \/ /\ second' = "failed"
          /\ rconn' = "second"
          /\ rerr' = "dial failed"
          /\ rret' = "dial failed"
       \/ /\ rconn' = "nil"
          /\ rerr' = "dial failed"
          /\ rret' = "dial failed"
          /\ UNCHANGED second
    /\ rpc' = "r_defer"
    /\ UNCHANGED <<probe, probeOut, evsess, events, evcur, eret>>
    /\ UNCHANGED clientVars
    /\ UNCHANGED pureVars

\* defer recv.Close() and defer sess.Close(), for those that were opened
CloseLinkAndSession(P) ==
    [P EXCEPT !.recv = IF @ = "open" THEN "closed" ELSE @,
              !.sess = IF @ = "open" THEN "closed" ELSE @]

\* the first deferred func: if err != nil { conn.Close() }, on the locals as
\* they are when connectToEventHub returns
DeferredConnClose(e, c, P) ==
    IF e # "nil" /\ c = "probe" THEN [P EXCEPT !.conn = "closed"] ELSE P

\* the deferred calls run in reverse order and connectToEventHub returns
ResolveReturn ==
    /\ rpc = "r_defer"
    /\ probe' = DeferredConnClose(rerr, rconn, CloseLinkAndSession(probe))
    /\ second' = IF rerr # "nil" /\ rconn = "second" THEN "closed" ELSE second
    /\ rret' = IF rerr # "nil" /\ rconn = "nil" THEN "panic: nil client" ELSE rret
    /\ rpc' = "e_resolved"
    /\ UNCHANGED <<rconn, rerr, dials, probeOut, evsess, events, evcur, eret>>
    /\ UNCHANGED clientVars
    /\ UNCHANGED pureVars

\* ---------------------------------------------------------- SubscribeEvents
\* err != nil from connectToEventHub returns it; else defer conn.Close() and
\* sess, err := conn.NewSession()
EvSession ==
    /\ rpc = "e_resolved"
    /\ IF rret # "nil"
       THEN /\ eret' = rret
            /\ rpc' = "e_returned"
            /\ UNCHANGED <<evsess, second>>
       ELSE \/ /\ evsess' = "open"
               /\ rpc' = "e_loop"
               /\ UNCHANGED <<eret, second>>
            \/ /\ eret' = "session failed"
               /\ second' = "closed"
               /\ rpc' = "e_returned"
               /\ UNCHANGED evsess
    /\ UNCHANGED <<rconn, rerr, probe, dials, probeOut, rret, events, evcur>>
    /\ UNCHANGED clientVars
    /\ UNCHANGED pureVars

\* eventhub.SubscribePartitions: the next event goes to the handler, or the
\* loop ends with an error and the deferred sess.Close(), conn.Close() run
EvReceive ==
    /\ rpc = "e_loop"
    /\ \/ /\ Len(events) < MaxEvents
          /\ events' = Append(events, [started |-> 0, state |-> "none"])
          /\ evcur' = Len(events) + 1
          /\ rpc' = "e_handler"
          /\ UNCHANGED <<eret, evsess, second>>
       \/ /\ \E e \in {"context canceled", "receive error"} : eret' = e
          /\ evsess' = "closed"
          /\ second' = "closed"
          /\ rpc' = "e_returned"
          /\ UNCHANGED <<events, evcur>>
    /\ UNCHANGED <<rconn, rerr, probe, dials, probeOut, rret>>
    /\ UNCHANGED clientVars
    /\ UNCHANGED pureVars

\* a handler that calls f itself and comes back when f returns
EvHandlerSync ==
    /\ rpc = "e_handler"
    /\ events[evcur].state # "running"
    /\ IF events[evcur].state = "none"
       THEN /\ events' = [events EXCEPT ![evcur].started = @ + 1,
                                        ![evcur].state = "running"]
            /\ UNCHANGED <<evcur, rpc>>
       ELSE /\ evcur' = 0
            /\ rpc' = "e_loop"
            /\ UNCHANGED events
    /\ UNCHANGED <<rconn, rerr, probe, second, dials, probeOut, rret, evsess, eret>>
    /\ UNCHANGED clientVars
    /\ UNCHANGED pureVars

\* func(msg *amqp.Message) { go f(commonamqp.FromAMQPMessage(msg)) }
EvHandler ==
    /\ rpc = "e_handler"
    /\ events' = [events EXCEPT ![evcur].started = @ + 1,
                                ![evcur].state = "running"]
    /\ evcur' = 0
    /\ rpc' = "e_loop"
    /\ UNCHANGED <<rconn, rerr, probe, second, dials, probeOut, rret, evsess, eret>>
    /\ UNCHANGED clientVars
    /\ UNCHANGED pureVars

\* a started callback returns (it need not)
EvCallbackReturn(m) ==
    /\ m \in 1 .. Len(events)
    /\ events[m].state = "running"
    /\ events' = [events EXCEPT ![m].state = "returned"]
    /\ UNCHANGED <<rpc, rconn, rerr, probe, second, dials, probeOut, rret,
                   evsess, evcur, eret>>
    /\ UNCHANGED clientVars
    /\ UNCHANGED pureVars

ResolveNext ==
    \/ ResolveSAS
    \/ ResolveDial
    \/ ResolveSession
    \/ ResolveReceiver
    \/ ResolveReceive
    \/ ResolveDial2
    \/ ResolveReturn
    \/ EvSession
    \/ EvReceive
    \/ EvHandler
    \/ \E m \in 1 .. MaxEvents : EvCallbackReturn(m)

ResolveSpec == Init /\ [][ResolveNext]_vars

\* ------------------------------------- connectToEventHub: redirect metadata
\* Go strings are sequences of one-character strings here.
PortMarker == <<":", "5", "6", "7", "1", "/">>
AmqpsPrefix == <<"a", "m", "q", "p", "s", ":", "/", "/">>

\* whether pat occurs in str at 0-based offset i
OccursAt(str, pat, i) ==
    /\ i + Len(pat) <= Len(str)
    /\ \A k \in 1 .. Len(pat) : str[i + k] = pat[k]

\* strings.Index: the offset of the first occurrence, or -1
Index(str, pat) ==
    LET hits == {i \in 0 .. Len(str) : OccursAt(str, pat, i)} IN
    IF hits = {} THEN -1 ELSE CHOOSE i \in hits : \A j \in hits : i <= j

\* the slice expression str[lo:hi]; out of range bounds panic (the panic is
\* a one-element sequence no string equals)
Slice(str, lo, hi) ==
    IF 0 <= lo /\ lo <= hi /\ hi <= Len(str)
    THEN [k \in 1 .. (hi - lo) |-> str[lo + k]]
    ELSE <<"panic: slice bounds out of range">>

\* a cut that keeps the slash of the port marker
GroupOfOffByOne(address) ==
    Slice(address, Index(address, PortMarker) + 5, Len(address) - 1)

\* group = group[strings.Index(group, ":5671/")+6 : len(group)-1]
GroupOf(address) ==
    Slice(address, Index(address, PortMarker) + 6, Len(address) - 1)

\* addr = "amqps://" + rerr.RemoteError.Info["hostname"].(string)
RedirectAddr(hostname) == AmqpsPrefix \o hostname

\* all strings over chars of length at most n
StringsUpTo(chars, n) == UNION {[1 .. k -> chars] : k \in 0 .. n}

HostChars == {"h", ":", "5"}
GroupChars == {"g", ":", "5", "/"}
Schemes == {<<"a", "m", "q", "p", "s">>, <<"s", "b">>}
Hosts == StringsUpTo(HostChars, MaxHostLen) \cup {<<"h", "o", "s", "t">>}
Groups == StringsUpTo(GroupChars, MaxGroupLen)
             \cup {<<"m", "y", "g", "r", "o", "u", "p">>}
Hostnames == {<<"r", "e", "d", "i", "r", "e", "c", "t", "e", "d", ".",
                "e", "x", "a", "m", "p", "l", "e", ".", "c", "o", "m">>,
              <<"h", ":", "5">>}

\* "<scheme>://<host>:5671/<group>/"
Address(scheme, host, group) ==
    scheme \o <<":", "/", "/">> \o host \o PortMarker \o group \o <<"/">>

\* the Info of the redirect errors the hub can send: those of the documented
\* form, and one whose address names another port
RedirectInfos ==
    {[wellFormed |-> TRUE, scheme |-> sc, host |-> h, group |-> g,
      address |-> Address(sc, h, g), hostname |-> hn] :
        sc \in Schemes, h \in Hosts, g \in Groups, hn \in Hostnames}
    \cup
    {[wellFormed |-> FALSE, scheme |-> sc, host |-> <<"h">>, group |-> <<"g">>,
      address |-> sc \o <<":", "/", "/", "h", ":", "5", "6", "7", "2", "/", "g", "/">>,
      hostname |-> hn] : sc \in Schemes, hn \in Hostnames}

ParseInit ==
    /\ ppc = "redirected"
    /\ pin \in RedirectInfos
    /\ pgroup = "none"
    /\ pdial = "none"

\* group := Info["address"].(string), then the cut
ParseGroup ==
    /\ ppc = "redirected"
    /\ pgroup' = GroupOf(pin.address)
    /\ ppc' = "parsed"
    /\ UNCHANGED <<pin, pdial>>
    /\ UNCHANGED <<clientVars, resolveVars, codecVars>>

\* the second amqp.Dial is given "amqps://" + hostname
ParseDial ==
    /\ ppc = "parsed"
    /\ pdial' = RedirectAddr(pin.hostname)
    /\ ppc' = "dialed"
    /\ UNCHANGED <<pin, pgroup>>
    /\ UNCHANGED <<clientVars, resolveVars, codecVars>>

ParseNext == ParseGroup \/ ParseDial

\* ------------------------------------------- commonamqp: message conversion
\* A Go map is a function on its keys; a nil map also carries isNil.
EmptyKV == [k \in {} |-> ""]

NilMap == [isNil |-> TRUE, kv |-> EmptyKV]

Put(kv, k, v) == [x \in DOMAIN kv \cup {k} |-> IF x = k THEN v ELSE kv[x]]

\* writing all of earlier and then all of later into one map
WriteInOrder(earlier, later) ==
    [x \in DOMAIN earlier \cup DOMAIN later |->
        IF x \in DOMAIN later THEN later[x] ELSE earlier[x]]

Pairs(kv) == {<<k, kv[k]>> : k \in DOMAIN kv}

\* an interface{} value: its dynamic type and its content
Str(s) == [t |-> "string", v |-> s]

Int64(digits) == [t |-> "int64", v |-> digits]

Time(at) == [t |-> "time", v |-> at]

NilValue == [t |-> "nil", v |-> ""]

TimeString(at) ==
    IF at = "zero" THEN "0001-01-01 00:00:00 +0000 UTC"
    ELSE "2018-06-01 12:00:00 +0000 UTC"

\* fmt.Sprint of an interface{} value
Sprint(x) ==
    CASE x.t = "string" -> x.v
      [] x.t = "int64" -> x.v
      [] x.t = "time" -> TimeString(x.v)
      [] OTHER -> "<nil>"

\* []byte(s) and string(b) for the characters used here
Chars == {"u", "1"}

ByteOf(c) == IF c = "u" THEN 117 ELSE 49

CharOf(b) == CHOOSE c \in Chars : ByteOf(c) = b

Bytes(s) == [i \in 1 .. Len(s) |-> ByteOf(s[i])]

String(b) == [i \in 1 .. Len(b) |-> CharOf(b[i])]

ZeroMessage ==
    [Payload |-> <<>>, Properties |-> NilMap, UserID |-> <<>>,
     MessageID |-> "", CorrelationID |-> "", To |-> "",
     ExpiryTime |-> "zero", EnqueuedTime |-> "zero",
     ConnectionDeviceID |-> "", ConnectionDeviceGenerationID |-> "",
     ConnectionAuthMethod |-> "", MessageSource |-> ""]

NilProperties ==
    [isNil |-> TRUE, To |-> "", UserID |-> <<>>, MessageID |-> NilValue,
     CorrelationID |-> NilValue, AbsoluteExpiryTime |-> "zero"]

ZeroWire ==
    [Data |-> <<>>, Properties |-> NilProperties, Annotations |-> EmptyKV,
     ApplicationProperties |-> EmptyKV]

\* an encoder that forgets the correlation id
ToAMQPMessageNoCorrelation(msg) ==
    [Data |-> <<msg.Payload>>,
     Properties |->
        [isNil |-> FALSE, To |-> msg.To, UserID |-> Bytes(msg.UserID),
         MessageID |-> Str(msg.MessageID), CorrelationID |-> NilValue,
         AbsoluteExpiryTime |-> msg.ExpiryTime],
     Annotations |-> EmptyKV,
     ApplicationProperties |->
        [k \in DOMAIN msg.Properties.kv |-> Str(msg.Properties.kv[k])]]

ToAMQPMessage(msg) ==
    [Data |-> <<msg.Payload>>,
     Properties |->
        [isNil |-> FALSE, To |-> msg.To, UserID |-> Bytes(msg.UserID),
         MessageID |-> Str(msg.MessageID),
         CorrelationID |-> Str(msg.CorrelationID),
         AbsoluteExpiryTime |-> msg.ExpiryTime],
     Annotations |-> EmptyKV,
     ApplicationProperties |->
        [k \in DOMAIN msg.Properties.kv |-> Str(msg.Properties.kv[k])]]

StringAnnotations ==
    {"iothub-connection-device-id", "iothub-connection-auth-generation-id",
     "iothub-connection-auth-method", "iothub-message-source"}

ReservedAnnotations == {"iothub-enqueuedtime"} \cup StringAnnotations

IsReserved(k) == k.t = "string" /\ k.v \in ReservedAnnotations

\* the run-time panics of the decoder: an index out of range or a failed
\* type assertion
DecodePanics(msg) ==
    \/ Len(msg.Data) = 0
    \/ /\ ~msg.Properties.isNil
       /\ \/ msg.Properties.MessageID.t # "string"
          \/ msg.Properties.CorrelationID.t # "string"
    \/ \E k \in DOMAIN msg.Annotations :
          \/ k = Str("iothub-enqueuedtime") /\ msg.Annotations[k].t # "time"
          \/ k.t = "string" /\ k.v \in StringAnnotations
                /\ msg.Annotations[k].t # "string"
          \/ ~IsReserved(k) /\ k.t # "string"
    \/ \E k \in DOMAIN msg.ApplicationProperties :
          msg.ApplicationProperties[k].t # "string"

\* the value of annotation name, or zero when the message has none
Annotation(msg, name, zero) ==
    IF Str(name) \in DOMAIN msg.Annotations
    THEN msg.Annotations[Str(name)].v ELSE zero

\* what the default case of the annotation loop writes
FoldedAnnotations(msg) ==
    [x \in {k.v : k \in {a \in DOMAIN msg.Annotations : ~IsReserved(a)}} |->
        Sprint(msg.Annotations[Str(x)])]

\* what the application property loop writes
FoldedProperties(msg) ==
    [k \in DOMAIN msg.ApplicationProperties |->
        msg.ApplicationProperties[k].v]

Decoded(msg, kv) ==
    [panic |-> FALSE,
     m |-> [Payload |-> msg.Data[1],
            Properties |-> [isNil |-> FALSE, kv |-> kv],
            UserID |-> IF msg.Properties.isNil THEN <<>>
                       ELSE String(msg.Properties.UserID),
            MessageID |-> IF msg.Properties.isNil THEN ""
                          ELSE msg.Properties.MessageID.v,
            CorrelationID |-> IF msg.Properties.isNil THEN ""
                              ELSE msg.Properties.CorrelationID.v,
            To |-> IF msg.Properties.isNil THEN "" ELSE msg.Properties.To,
            ExpiryTime |-> IF msg.Properties.isNil THEN "zero"
                           ELSE msg.Properties.AbsoluteExpiryTime,
            EnqueuedTime |-> Annotation(msg, "iothub-enqueuedtime", "zero"),
            ConnectionDeviceID |->
                Annotation(msg, "iothub-connection-device-id", ""),
            ConnectionDeviceGenerationID |->
                Annotation(msg, "iothub-connection-auth-generation-id", ""),
            ConnectionAuthMethod |->
                Annotation(msg, "iothub-connection-auth-method", ""),
            MessageSource |-> Annotation(msg, "iothub-message-source", "")]]

Panicked == [panic |-> TRUE, m |-> ZeroMessage]

\* a decoder that runs the application property loop before the annotations
FromAMQPMessageAppFirst(msg) ==
    IF DecodePanics(msg) THEN Panicked
    ELSE Decoded(msg, WriteInOrder(FoldedProperties(msg),
                                   FoldedAnnotations(msg)))

FromAMQPMessage(msg) ==
    IF DecodePanics(msg) THEN Panicked
    ELSE Decoded(msg, WriteInOrder(FoldedAnnotations(msg),
                                   FoldedProperties(msg)))

\* ----------------------------------------------------- iotservice: WithSendAck
AckNone == "none"

AckPositive == "positive"

AckNegative == "negative"

AckFull == "full"

AckTypes == {"", AckNone, AckPositive, AckNegative, AckFull}

\* WithSendProperty(k, v)(msg): the message afterwards; it never fails
WithSendProperty(k, v, msg) ==
    [msg EXCEPT !.Properties =
        [isNil |-> FALSE, kv |-> Put(msg.Properties.kv, k, v)]]

\* an option that sets the property without looking at the value
WithSendAckUnchecked(typ, msg) ==
    [err |-> "nil", msg |-> WithSendProperty("iothub-ack", typ, msg)]

\* WithSendAck(typ)(msg): the error returned and the message afterwards
WithSendAck(typ, msg) ==
    IF typ \in AckTypes
    THEN [err |-> "nil", msg |-> WithSendProperty("iothub-ack", typ, msg)]
    ELSE [err |-> "unknown ack type", msg |-> msg]

\* ------------------------------------------------------- conversion inputs
AckInputs == AckTypes \cup {"Full", "all"}

MapsUpTo(keys, vals, n) ==
    UNION {[d -> vals] : d \in {s \in SUBSET keys : Cardinality(s) <= n}}

PropertyKeys == {"a", "iothub-ack", "iothub-message-source"}

PropertyValues == {"1", "full"}

Payloads == {<<>>, <<104, 105>>}

UserIDs == {<<>>, <<"u", "1">>}

Times == {"zero", "t1"}

PropertyMaps ==
    {NilMap} \cup
    {[isNil |-> FALSE, kv |-> f] :
        f \in MapsUpTo(PropertyKeys, PropertyValues, MaxProps)}

\* the messages an application can hand to the encoder
SentMessages ==
    {[ZeroMessage EXCEPT !.Payload = p, !.Properties = props, !.UserID = u,
                         !.MessageID = ids[1], !.CorrelationID = ids[2],
                         !.To = to, !.ExpiryTime = at, !.MessageSource = src] :
        p \in Payloads, props \in PropertyMaps, u \in UserIDs,
        ids \in {"", "mid"} \X {"", "cid"},
        to \in {"", "/devices/d1/messages/devicebound"},
        at \in Times, src \in {"", "Telemetry"}}

AnnotationKeys ==
    {Str(k) : k \in ReservedAnnotations \cup {"a"}} \cup {Int64("7")}

AnnotationValues == {Str("x"), Int64("7"), Time("t1")}

WireProperties ==
    {NilProperties} \cup
    {[isNil |-> FALSE, To |-> "", UserID |-> <<117, 49>>, MessageID |-> ids[1],
      CorrelationID |-> ids[2], AbsoluteExpiryTime |-> "t1"] :
        ids \in {<<Str("mid"), Str("cid")>>, <<NilValue, Str("cid")>>,
                 <<Str("mid"), NilValue>>}}

\* the messages the hub can deliver to the decoder
ReceivedMessages ==
    {[Data |-> d, Properties |-> props, Annotations |-> ann,
      ApplicationProperties |-> app] :
        d \in {<<>>, <<(<<104, 105>>)>>}, props \in WireProperties,
        ann \in MapsUpTo(AnnotationKeys, AnnotationValues, MaxAnnotations),
        app \in MapsUpTo({"a", "iothub-message-source"},
                         {Str("1"), Int64("5")}, MaxProps)}

CodecInputs ==
    {[kind |-> "send", m |-> m, w |-> ZeroWire] : m \in SentMessages} \cup
    {[kind |-> "receive", m |-> ZeroMessage, w |-> w] :
        w \in ReceivedMessages}

NoOutput == [panic |-> FALSE, m |-> ZeroMessage]

CodecInit ==
    /\ cpc = "start"
    /\ cin \in CodecInputs
    /\ cmsg = cin.m
    /\ ctyp = ""
    /\ cerr = "not applied"
    /\ cwire = cin.w
    /\ cout = NoOutput

\* SendEvent applies a WithSendAck option to the message
ApplyAck ==
    /\ cpc = "start"
    /\ cin.kind = "send"
    /\ \E typ \in AckInputs :
          /\ cmsg' = WithSendAck(typ, cmsg).msg
          /\ cerr' = WithSendAck(typ, cmsg).err
          /\ ctyp' = typ
    /\ cpc' = "opted"
    /\ UNCHANGED <<cin, cwire, cout>>
    /\ UNCHANGED <<clientVars, resolveVars, parseVars>>

\* SendEvent hands the message to ToAMQPMessage unless an option failed
Encode ==
    /\ cin.kind = "send"
    /\ cpc = "start" \/ (cpc = "opted" /\ cerr = "nil")
    /\ cwire' = ToAMQPMessage(cmsg)
    /\ cpc' = "encoded"
    /\ UNCHANGED <<cin, cmsg, ctyp, cerr, cout>>
    /\ UNCHANGED <<clientVars, resolveVars, parseVars>>

\* the receiving side hands a wire message to FromAMQPMessage
Decode ==
    /\ cpc = "encoded" \/ (cpc = "start" /\ cin.kind = "receive")
    /\ cout' = FromAMQPMessage(cwire)
    /\ cpc' = "decoded"
    /\ UNCHANGED <<cin, cmsg, ctyp, cerr, cwire>>
    /\ UNCHANGED <<clientVars, resolveVars, parseVars>>

CodecNext == ApplyAck \/ Encode \/ Decode

Next ==
    \/ \E p \in Procs : ConnectLock(p)
    \/ \E p \in Procs : ConnectDial(p)
    \/ \E p \in Procs : ConnectAuth(p)
    \/ \E p \in Procs : ConnectReturn(p)
    \/ \E p \in Procs : CloseSelect(p)
    \/ \E p \in Procs : CloseConn(p)
    \/ \E p \in Procs : SendCall(p)
    \/ \E p \in Procs : SendLink(p)
    \/ \E p \in Procs : SendSend(p)
    \/ \E p \in Procs : FbCheck(p)
    \/ \E p \in Procs : FbLink(p)
    \/ \E p \in Procs : FbReceive(p)
    \/ \E p \in Procs : FbAccept(p)
    \/ \E p \in Procs : FbDispatch(p)
    \/ \E m \in 1 .. MaxBatches : FbCallbackReturn(m)
    \/ \E t \in Transports : RenewWait(t)
    \/ \E t \in Transports : RenewSubmit(t)

Spec == Init /\ [][Next]_vars

\* Connect and Close alone, with the renewal goroutines scheduled fairly: a
\* goroutine at its select or inside a submission eventually moves on
LifecycleNext ==
    \/ \E p \in Procs : ConnectLock(p)
    \/ \E p \in Procs : ConnectDial(p)
    \/ \E p \in Procs : ConnectAuth(p)
    \/ \E p \in Procs : ConnectReturn(p)
    \/ \E p \in Procs : CloseSelect(p)
    \/ \E p \in Procs : CloseConn(p)
    \/ \E t \in Transports : RenewWait(t)
    \/ \E t \in Transports : RenewSubmit(t)

\* a fresh client at the moment connectToEventHub holds a redirect error
ParseStart ==
    /\ ResolveInit
    /\ ClientInit
    /\ ParseInit
    /\ CodecIdle

ParseSpec == ParseStart /\ [][ParseNext]_vars

\* a fresh client and one message handed to the conversions
CodecStart ==
    /\ ResolveInit
    /\ ClientInit
    /\ ParseIdle
    /\ CodecInit

CodecSpec == CodecStart /\ [][CodecNext]_vars

LifecycleSpec ==
    /\ Init
    /\ [][LifecycleNext]_vars
    /\ \A t \in Transports : WF_vars(RenewWait(t)) /\ WF_vars(RenewSubmit(t))

\* ================================================================== claims
Idle == \A p \in Procs : pc[p] = "idle"

OpenTransports == {t \in Transports : tr[t].state = "open"}

\* C1: however many Close calls run, in sequence or concurrently, c.done is
\* closed exactly once, no transport has Close called on it twice, and every
\* Close after the first returns nil at once without doing anything.
C1_CloseIdempotent ==
    /\ doneCloses <= 1
    /\ closeSeq >= 1 => (done /\ doneCloses = 1)
    /\ \A t \in Transports : tr[t].closes <= 1
    /\ \A p \in Procs :
          (loc[p].op = "Close" /\ loc[p].idx > 1) =>
              (pc[p] = "idle" /\ loc[p].err = "nil" /\ loc[p].net = 0)

\* two Close calls have returned on a connected client
C1_Witness ==
    /\ conn # NilConn
    /\ tr[conn].closes = 1
    /\ \E p, q \in Procs :
          /\ p # q
          /\ pc[p] = "idle" /\ loc[p].op = "Close" /\ loc[p].idx = 1
          /\ pc[q] = "idle" /\ loc[q].op = "Close" /\ loc[q].idx = 2

\* C2: a Connect that fails after the dial has closed the transport it dialed
\* by the time it returns and has left c.conn as it found it; c.conn is the
\* dialed transport only on the path that returns nil.
C2_ConnectFailureCleansUp ==
    \A p \in Procs :
       loc[p].op = "Connect" =>
          /\ pc[p] \in {"connect_dial", "connect_auth"} => conn = loc[p].pre
          /\ pc[p] = "connect_defer" =>
                conn = (IF loc[p].err = "nil" THEN loc[p].eh ELSE loc[p].pre)
          /\ (pc[p] = "idle" /\ loc[p].err # "nil" /\ loc[p].eh # NilConn) =>
                (tr[loc[p].eh].state = "closed" /\ conn # loc[p].eh)

\* a Connect on a connected client was rejected at the token submission
C2_Witness ==
    \E p \in Procs :
       /\ pc[p] = "idle" /\ loc[p].op = "Connect"
       /\ loc[p].err = "put token rejected"
       /\ loc[p].pre # NilConn /\ conn = loc[p].pre
       /\ tr[loc[p].eh].state = "closed"

Resolved == rpc \in {"e_resolved", "e_loop", "e_handler", "e_returned"}

\* C3: once connectToEventHub has returned, the probe transport, the probe
\* session and the probe receive link it opened are all released.
C3_ProbeReleased ==
    Resolved => (probe.conn # "open" /\ probe.sess # "open" /\ probe.recv # "open")

\* C4: connectToEventHub dials a second time only after a link-redirect
\* error; any other probe error is returned as it is, and a probe receive
\* that succeeds returns an error, both without a second dial.
C4_SecondDialOnlyOnRedirect ==
    /\ (dials >= 2 \/ rpc = "r_dial2") => probeOut = "detach: link redirect"
    /\ (Resolved /\ probeOut \in {"detach: unauthorized", "context canceled"}) =>
          (rret = probeOut /\ dials = 1 /\ second = "none")
    /\ (Resolved /\ probeOut = "nil") =>
          (rret = "expected redirect error" /\ dials = 1 /\ second = "none")

\* a detach error that is not a redirect came back from the resolver
C4_Witness ==
    Resolved /\ probeOut = "detach: unauthorized" /\ rret = "detach: unauthorized"

\* C5: with no call in progress, at most one transport opened by Connect is
\* open.
C5_OnePrimaryTransport == Idle => Cardinality(OpenTransports) <= 1

BeingHandled(m) ==
    \E p \in Procs : loc[p].msg = m /\ pc[p] \in {"fb_accept", "fb_dispatch"}

C8_NotConnected ==
    conn = NilConn =>
       /\ \A t \in Transports : tr[t].senders = 0 /\ tr[t].receivers = 0
       /\ \A p \in Procs :
             (loc[p].op \in {"SendEvent", "SubscribeFeedback"} /\ loc[p].valid) =>
                (pc[p] = "idle" /\ loc[p].err = "not connected" /\ loc[p].net = 0)

\* both operations were refused on a client that never connected
C8_Witness ==
    /\ conn = NilConn
    /\ \E p, q \in Procs :
          /\ loc[p].op = "SendEvent" /\ loc[p].valid /\ loc[p].err = "not connected"
          /\ loc[q].op = "SubscribeFeedback" /\ loc[q].err = "not connected"

Renewing(t) == renew[t] \in {"waiting", "submitting"}

C11_RenewalCoversConnection ==
    \A t \in Transports :
       (tr[t].state = "open" /\ renew[t] \notin {"none", "failed"}) => Renewing(t)

\* C15: no caller is inside a network call of Connect (the dial, the token
\* submission) or of Close (the transport close) while it holds c.mu.
C15_NoLockAcrossNetwork ==
    \A p \in Procs :
       pc[p] \in {"connect_dial", "connect_auth", "close_conn"} => mu # p

\* C16: the transport SendEvent or SubscribeFeedback opens its link on is the
\* one c.conn held when isConnected looked at it under the mutex.
C16_UsesCheckedConnection ==
    \A p \in Procs :
       (loc[p].op \in {"SendEvent", "SubscribeFeedback"} /\ loc[p].lnk # NilConn) =>
          loc[p].lnk = loc[p].pre

\* C17: once a Close that closed the connection has returned, c.conn no
\* longer holds that connection (it is nil, so isConnected answers no).
C17_HandleClearedByClose ==
    \A p \in Procs :
       (pc[p] = "idle" /\ loc[p].op = "Close" /\ loc[p].net > 0) =>
          conn # loc[p].pre

FbReturned(p) ==
    /\ loc[p].op = "SubscribeFeedback"
    /\ pc[p] = "idle"
    /\ loc[p].lnk # NilConn

\* C18, as stated: with its link open, SubscribeFeedback returns only the
\* error of a failed Receive (cancellation or transport failure).
C18_ReturnsOnlyReceiveError ==
    \A p \in Procs : FbReturned(p) => loc[p].err = "receive error"

\* C18, amended: with its link open, SubscribeFeedback returns only the
\* error of a failed Receive or, for a message it has accepted whose body is
\* not a JSON array of records, the decoding error; after any other message
\* it goes back to Receive.
C18_ReturnsOnReceiveOrDecodeError ==
    \A p \in Procs :
       FbReturned(p) =>
          \/ loc[p].err = "receive error"
          \/ /\ loc[p].err = "json error"
             /\ loc[p].msg \in 1 .. Len(fb)
             /\ fb[loc[p].msg].len < 0
             /\ fb[loc[p].msg].acked

\* a batch of two was dispatched and the Receive after it failed
C18_Witness ==
    \E p \in Procs :
       /\ FbReturned(p) /\ loc[p].err = "receive error"
       /\ Len(fb) >= 1 /\ fb[1].len = 2
       /\ \A i \in 1 .. 2 : fb[1].started[i] = 1

\* C20: when every goroutine's last call was a Close (or it made none), a
\* Close has run and nothing is in progress, no transport dialed by Connect
\* is open.
C20_NothingOpenAfterClose ==
    (/\ Idle
     /\ closeSeq >= 1
     /\ \A p \in Procs : loc[p].op \in {"Close", "none"}) =>
        OpenTransports = {}

\* C12: for a redirect address "<scheme>://<host>:5671/<group>/" the group
\* the resolver cuts out is <group>, and the address it dials is "amqps://"
\* followed by the hostname field.
C12_GroupAndDialAddress ==
    ppc # "idle" =>
       /\ (pin.wellFormed /\ ppc \in {"parsed", "dialed"}) => pgroup = pin.group
       /\ ppc = "dialed" => pdial = AmqpsPrefix \o pin.hostname

\* the example of the specification: amqps://host:5671/mygroup/ and
\* redirected.example.com
C12_Witness ==
    /\ ppc = "dialed"
    /\ pin.address = <<"a", "m", "q", "p", "s", ":", "/", "/", "h", "o", "s", "t",
                       ":", "5", "6", "7", "1", "/",
                       "m", "y", "g", "r", "o", "u", "p", "/">>
    /\ pgroup = <<"m", "y", "g", "r", "o", "u", "p">>
    /\ pdial = <<"a", "m", "q", "p", "s", ":", "/", "/",
                 "r", "e", "d", "i", "r", "e", "c", "t", "e", "d", ".",
                 "e", "x", "a", "m", "p", "l", "e", ".", "c", "o", "m">>

\* C13: decoding the wire message produced by encoding an application
\* message gives back the same payload, message id, correlation id, user
\* id and expiry time, and exactly the same property key/value pairs.
C13_RoundTrip ==
    (cpc = "decoded" /\ cin.kind = "send") =>
       /\ ~cout.panic
       /\ cout.m.Payload = cmsg.Payload
       /\ cout.m.MessageID = cmsg.MessageID
       /\ cout.m.CorrelationID = cmsg.CorrelationID
       /\ cout.m.UserID = cmsg.UserID
       /\ cout.m.ExpiryTime = cmsg.ExpiryTime
       /\ Pairs(cout.m.Properties.kv) = Pairs(cmsg.Properties.kv)

C13_Witness ==
    /\ cpc = "decoded"
    /\ cin.kind = "send"
    /\ cmsg.Payload = <<104, 105>>
    /\ cmsg.MessageID = "mid"
    /\ cmsg.CorrelationID = "cid"
    /\ cmsg.UserID = <<"u", "1">>
    /\ cmsg.ExpiryTime = "t1"
    /\ Pairs(cmsg.Properties.kv) =
          {<<"a", "1">>, <<"iothub-message-source", "full">>}
    /\ Pairs(cout.m.Properties.kv) = Pairs(cmsg.Properties.kv)
    /\ cout.m.CorrelationID = "cid"

\* C14: WithSendAck with a value outside "", none, positive, negative, full
\* returns an error and leaves the message, its properties map included,
\* as it was; with a value inside the set it returns no error, sets the
\* property iothub-ack to the value and changes no other field or property.
C14_SendAckFrame ==
    (cpc # "idle" /\ cerr # "not applied") =>
       IF ctyp \in {"", "none", "positive", "negative", "full"}
       THEN /\ cerr = "nil"
            /\ "iothub-ack" \in DOMAIN cmsg.Properties.kv
            /\ cmsg.Properties.kv["iothub-ack"] = ctyp
            /\ \A k \in DOMAIN cmsg.Properties.kv \ {"iothub-ack"} :
                  /\ k \in DOMAIN cin.m.Properties.kv
                  /\ cmsg.Properties.kv[k] = cin.m.Properties.kv[k]
            /\ DOMAIN cin.m.Properties.kv \subseteq DOMAIN cmsg.Properties.kv
            /\ [cmsg EXCEPT !.Properties = NilMap] =
                  [cin.m EXCEPT !.Properties = NilMap]
       ELSE /\ cerr # "nil"
            /\ cmsg = cin.m

C14_Witness ==
    /\ cpc = "opted"
    /\ ctyp = "Full"
    /\ cerr = "unknown ack type"
    /\ cmsg = cin.m
    /\ Pairs(cmsg.Properties.kv) = {<<"a", "1">>, <<"iothub-ack", "full">>}

\* C19: a decode that returns has put every reserved annotation of the
\* wire message into its dedicated field and none of them into the
\* properties map; the properties map holds the application properties and
\* the formatted other annotations, and on a shared key the application
\* property's value.
C19_ReservedAndFoldOrder ==
    (cpc = "decoded" /\ ~cout.panic) =>
       LET ann == cwire.Annotations
           app == cwire.ApplicationProperties
           props == cout.m.Properties.kv
           field == [k \in ReservedAnnotations |->
                       CASE k = "iothub-enqueuedtime" -> cout.m.EnqueuedTime
                         [] k = "iothub-connection-device-id" ->
                               cout.m.ConnectionDeviceID
                         [] k = "iothub-connection-auth-generation-id" ->
                               cout.m.ConnectionDeviceGenerationID
                         [] k = "iothub-connection-auth-method" ->
                               cout.m.ConnectionAuthMethod
                         [] OTHER -> cout.m.MessageSource]
       IN  /\ \A k \in ReservedAnnotations :
                Str(k) \in DOMAIN ann =>
                   /\ field[k] = ann[Str(k)].v
                   /\ k \in DOMAIN props => k \in DOMAIN app
           /\ \A a \in DOMAIN ann :
                (a.t = "string" /\ a.v \notin ReservedAnnotations) =>
                   /\ a.v \in DOMAIN props
                   /\ a.v \notin DOMAIN app => props[a.v] = Sprint(ann[a])
           /\ \A k \in DOMAIN app : k \in DOMAIN props /\ props[k] = app[k].v
           /\ \A k \in DOMAIN props :
                k \in DOMAIN app \/
                   (Str(k) \in DOMAIN ann /\ k \notin ReservedAnnotations)

C19_Witness ==
    /\ cpc = "decoded"
    /\ cin.kind = "receive"
    /\ ~cout.panic
    /\ Str("a") \in DOMAIN cwire.Annotations
    /\ cwire.Annotations[Str("a")] = Int64("7")
    /\ Str("iothub-message-source") \in DOMAIN cwire.Annotations
    /\ "a" \in DOMAIN cwire.ApplicationProperties
    /\ cwire.ApplicationProperties["a"] = Str("1")
    /\ cout.m.Properties.kv["a"] = "1"
    /\ cout.m.MessageSource = "x"
    /\ "iothub-message-source" \notin DOMAIN cout.m.Properties.kv

====
